---- MODULE Spec2Model ----
(***************************************************************************)
(* A model of src/main.cpp: the producer safe_square_root, the combinators *)
(* of boost::optional as main() calls them (map, flat_map, value_or,       *)
(* value_or_eval, get, the comparison with boost::none) and the blocks of  *)
(* main(), each run step by step.                                          *)
(*                                                                         *)
(* Representation.                                                         *)
(*  - optional<T> is a sequence of length 0 (boost::none) or 1 (the        *)
(*    payload), so an absent optional has no payload to read.              *)
(*  - a finite double d is the integer floor(d * Scale) (fixed point);     *)
(*    std::sqrt is the fixed-point floor square root, exact on perfect     *)
(*    squares, and the implicit double -> std::int32_t conversion at the   *)
(*    calls of safe_square_root truncates toward zero.  NAN occurs only as *)
(*    the default of value_or (line 98) and is a tagged value.             *)
(*  - a std::string is a sequence of character codes.                      *)
(*  - a callable is a record whose fn field names it; a closure also       *)
(*    carries what it captured.  Every application is logged, so that the  *)
(*    number and order of the invocations are part of the state.           *)
(*  - the literals of main() (the argument 1 at line 43, the stages of the *)
(*    chain at lines 78-83, the loaded Person, a and b) are drawn from     *)
(*    bounded sets that contain them.  assert() is compiled in (the        *)
(*    program's checks are assert() calls); a failed assert is recorded in *)
(*    failed_asserts by its line, so that the blocks below it are still    *)
(*    examined on the inputs for which main()'s literals are not used.     *)
(***************************************************************************)
EXTENDS Integers, Sequences, FiniteSets

VARIABLES
  pc,                        \* the line main() is at
  arg,                       \* the argument of the call at line 43
  invalid_res,               \* line 41
  valid_res,                 \* line 43
  failed_asserts,            \* lines of the assert()s that failed
  has_error,                 \* line 49
  sad_evaluations_sequence,  \* line 48
  new_res,                   \* line 54
  stages,                    \* the stages of the chain applied so far (lines 78-83)
  tmp,                       \* the temporary the last stage returned
  prev,                      \* the receiver of the last stage
  calls,                     \* the callables invoked by the chain, in order
  evaluations_sequence,      \* line 74
  result_or,                 \* line 98
  result_eval,               \* line 104
  gen_calls,                 \* the generators invoked by value_or_eval
  printed,                   \* what printf has written
  raised,                    \* an empty access (BOOST_ASSERT in get()) happened
  person,                    \* line 130
  capitalized_middle_name,   \* line 131
  person_calls,              \* the callables invoked at lines 132-139
  a, b,                      \* lines 146, 147
  result,                    \* line 151
  result_f,                  \* line 163
  combine_calls              \* the callables invoked at lines 163-168

vars == << pc, arg, invalid_res, valid_res, failed_asserts, has_error,
           sad_evaluations_sequence, new_res, stages, tmp, prev, calls,
           evaluations_sequence, result_or, result_eval, gen_calls, printed,
           raised, person, capitalized_middle_name, person_calls, a, b,
           result, result_f, combine_calls >>

----------------------------------------------------------------------------
(* Bounds. *)

\* arguments of safe_square_root at line 43: -NegArgs .. MaxArg
MaxArg == 5
NegArgs == 2
\* the longest chain of map / flat_map stages
MaxChain == 4
\* fixed-point resolution of a double
Scale == 100
\* the payloads of a and b beside main()'s 5: 5 .. 5 + IntSpread
IntSpread == 2

Args == (0 - NegArgs) .. MaxArg

----------------------------------------------------------------------------
(* boost::optional<T> *)

None == << >>

Some(x) == << x >>

\* is_initialized(), and the comparison with boost::none
IsInit(o) == o # None

\* a finite double, and NAN, where both can occur (value_or, printf)
Num(x) == [nan |-> FALSE, m |-> x]

NAN == [nan |-> TRUE, m |-> 0]

----------------------------------------------------------------------------
(* Example 1 *)

\* the r with r * r <= m < (r + 1) * (r + 1), by bisection of lo .. hi
RECURSIVE SqrtBetween(_, _, _)
SqrtBetween(m, lo, hi) ==
  IF hi - lo <= 1
    THEN lo
    ELSE LET mid == (lo + hi) \div 2
         IN  IF mid * mid <= m
               THEN SqrtBetween(m, mid, hi)
               ELSE SqrtBetween(m, lo, mid)

\* std::sqrt of a non-negative int, as a fixed-point double
Sqrt(n) == SqrtBetween(n * Scale * Scale, 0, (n + 1) * Scale)

safe_square_root_abs(a_param) ==
  Some(Sqrt(IF a_param < 0 THEN 0 - a_param ELSE a_param))

safe_square_root_le(a_param) == IF a_param <= 0 THEN None ELSE Some(Sqrt(a_param))

safe_square_root(a_param) == IF a_param < 0 THEN None ELSE Some(Sqrt(a_param))

\* the implicit conversion double -> std::int32_t: truncation toward zero
ToInt32(d) == IF d >= 0 THEN d \div Scale ELSE 0 - ((0 - d) \div Scale)

get_default == 0

\* std::toupper in the "C" locale
ToUpper(c) == IF c >= 97 /\ c <= 122 THEN c - 32 ELSE c

----------------------------------------------------------------------------
(* The callables main() passes to the combinators. *)

\* the functors given to map: line 78, line 79, line 83, lines 133-139, line 164
Apply(f, x) ==
  CASE f.fn = "plus3"      -> x + 3 * Scale
    [] f.fn = "negate"     -> 0 - x
    [] f.fn = "times2"     -> x * 2
    [] f.fn = "capitalize" -> [i \in 1 .. Len(x) |-> ToUpper(x[i])]
    [] f.fn = "add"        -> f.value + x

MapFns == { [fn |-> "plus3"], [fn |-> "negate"], [fn |-> "times2"] }

FlatMapFns == { [fn |-> "safe_square_root"] }

\* what maybe_load_from_file may return; main()'s is John Doe, without a middle name
Person(middle_name) ==
  [first_name |-> "John", middle_name |-> middle_name, last_name |-> "Doe"]

MiddleNames == { None, Some(<< 97 >>), Some(<< 66, 111 >>) }

maybe_load_from_file == { None } \cup { Some(Person(m)) : m \in MiddleNames }

OptInts == { None } \cup { Some(5 + i) : i \in 0 .. IntSpread }

----------------------------------------------------------------------------
(* The combinators.  Each returns its result (res) and the callables it     *)
(* invoked, in order (called).                                             *)

MapEager(o, f) ==
  IF IsInit(o)
    THEN [res |-> Some(Apply(f, o[1])), called |-> << f.fn >>]
    ELSE [res |-> None, called |-> << f.fn >>]

MapTwice(o, f) ==
  IF IsInit(o)
    THEN [res |-> Some(Apply(f, Apply(f, o[1]))), called |-> << f.fn, f.fn >>]
    ELSE [res |-> None, called |-> << >>]

\* optional<T>::map(f)
Map(o, f) ==
  IF IsInit(o)
    THEN [res |-> Some(Apply(f, o[1])), called |-> << f.fn >>]
    ELSE [res |-> None, called |-> << >>]

ApplyOptLosingCapture(f, x) ==
  CASE f.fn = "safe_square_root" ->
         [res |-> safe_square_root(ToInt32(x)), called |-> << >>]
    [] f.fn = "GetMiddleName" ->
         [res |-> x.middle_name, called |-> << >>]
    [] f.fn = "combine" ->
         Map(f.b, [fn |-> "add", value |-> 0])

\* the functors given to flat_map: line 82, line 132, lines 163-168
ApplyOpt(f, x) ==
  CASE f.fn = "safe_square_root" ->
         [res |-> safe_square_root(ToInt32(x)), called |-> << >>]
    [] f.fn = "GetMiddleName" ->
         [res |-> x.middle_name, called |-> << >>]
    [] f.fn = "combine" ->
         Map(f.b, [fn |-> "add", value |-> x])

FlatMapDropping(o, f) == [res |-> None, called |-> << >>]

\* optional<T>::flat_map(f)
FlatMap(o, f) ==
  IF IsInit(o)
    THEN LET r == ApplyOpt(f, o[1])
         IN  [res |-> r.res, called |-> << f.fn >> \o r.called]
    ELSE [res |-> None, called |-> << >>]

\* optional<T>::value_or(d)
ValueOr(o, d) == IF IsInit(o) THEN Num(o[1]) ELSE d

\* the generators given to value_or_eval: line 104
CallGen(g) == CASE g = "get_default" -> get_default

ValueOrEvalEager(o, g) ==
  IF IsInit(o)
    THEN [res |-> o[1], called |-> << g >>]
    ELSE [res |-> CallGen(g), called |-> << g >>]

\* optional<T>::value_or_eval(g)
ValueOrEval(o, g) ==
  IF IsInit(o)
    THEN [res |-> o[1], called |-> << >>]
    ELSE [res |-> CallGen(g), called |-> << g >>]

\* optional<T>::get(): BOOST_ASSERT(is_initialized()), then the payload
Get(o) ==
  IF IsInit(o)
    THEN [raised |-> FALSE, val |-> Some(o[1])]
    ELSE [raised |-> TRUE, val |-> None]

\* optional<T>::value(): the payload, or throws bad_optional_access
Value(o) ==
  IF IsInit(o)
    THEN [thrown |-> FALSE, val |-> Some(o[1])]
    ELSE [thrown |-> TRUE, val |-> None]

\* printf: the line of the call, the kind of text and the %f argument if any
Printf(line, text, v) == Append(printed, [line |-> line, text |-> text, v |-> v])

\* assert(cond) at `line`
Check(line, cond) == IF cond THEN failed_asserts ELSE failed_asserts \cup { line }

----------------------------------------------------------------------------
(* main() *)

Init ==
  /\ pc = "l41"
  /\ arg = 0
  /\ invalid_res = None
  /\ valid_res = None
  /\ failed_asserts = { }
  /\ has_error = FALSE
  /\ sad_evaluations_sequence = 0
  /\ new_res = None
  /\ stages = << >>
  /\ tmp = None
  /\ prev = None
  /\ calls = << >>
  /\ evaluations_sequence = None
  /\ result_or = Num(0)
  /\ result_eval = 0
  /\ gen_calls = << >>
  /\ printed = << >>
  /\ raised = FALSE
  /\ person = None
  /\ capitalized_middle_name = None
  /\ person_calls = << >>
  /\ a = None
  /\ b = None
  /\ result = None
  /\ result_f = None
  /\ combine_calls = << >>

sadVars == << has_error, sad_evaluations_sequence, new_res >>

chainVars == << stages, tmp, prev, calls, evaluations_sequence, result_or,
                result_eval, gen_calls >>

personVars == << person, capitalized_middle_name, person_calls >>

combineVars == << a, b, result, result_f, combine_calls >>

\* lines 41-42
L41 ==
  /\ pc = "l41"
  /\ invalid_res' = safe_square_root(-1)
  /\ failed_asserts' = Check(42, invalid_res' = None)
  /\ pc' = "l43"
  /\ UNCHANGED << arg, valid_res, sadVars, chainVars, printed, raised,
                  personVars, combineVars >>

\* lines 43-44; main()'s argument is 1
L43 ==
  /\ pc = "l43"
  /\ \E k \in Args :
       /\ arg' = k
       /\ valid_res' = safe_square_root(k)
  /\ failed_asserts' = Check(44, IsInit(valid_res'))
  /\ pc' = "l51"
  /\ UNCHANGED << invalid_res, sadVars, chainVars, printed, raised,
                  personVars, combineVars >>

\* an empty access: BOOST_ASSERT aborts the program
Abort ==
  /\ raised' = TRUE
  /\ pc' = "aborted"

\* lines 51, 61-63
L51 ==
  /\ pc = "l51"
  /\ IF valid_res # None
       THEN pc' = "l52" /\ UNCHANGED has_error
       ELSE pc' = "l65" /\ has_error' = TRUE
  /\ UNCHANGED << arg, invalid_res, valid_res, failed_asserts,
                  sad_evaluations_sequence, new_res, chainVars, printed,
                  raised, personVars, combineVars >>

\* lines 52-54
L52 ==
  /\ pc = "l52"
  /\ LET got == Get(valid_res)
     IN  IF got.raised
           THEN Abort /\ UNCHANGED new_res
           ELSE LET tmp_res == got.val[1]
                    negated_tmp_res == Apply([fn |-> "negate"], tmp_res)
                IN  /\ new_res' = safe_square_root(ToInt32(negated_tmp_res))
                    /\ pc' = "l56"
                    /\ UNCHANGED raised
  /\ UNCHANGED << arg, invalid_res, valid_res, failed_asserts, has_error,
                  sad_evaluations_sequence, chainVars, printed, personVars,
                  combineVars >>

L56OnValidRes ==
  /\ pc = "l56"
  /\ IF valid_res # None
       THEN pc' = "l57" /\ UNCHANGED has_error
       ELSE pc' = "l65" /\ has_error' = TRUE
  /\ UNCHANGED << arg, invalid_res, valid_res, failed_asserts,
                  sad_evaluations_sequence, new_res, chainVars, printed,
                  raised, personVars, combineVars >>

\* lines 56, 58-60
L56 ==
  /\ pc = "l56"
  /\ IF new_res # None
       THEN pc' = "l57" /\ UNCHANGED has_error
       ELSE pc' = "l65" /\ has_error' = TRUE
  /\ UNCHANGED << arg, invalid_res, valid_res, failed_asserts,
                  sad_evaluations_sequence, new_res, chainVars, printed,
                  raised, personVars, combineVars >>

\* line 57
L57 ==
  /\ pc = "l57"
  /\ LET got == Get(new_res)
     IN  IF got.raised
           THEN Abort /\ UNCHANGED sad_evaluations_sequence
           ELSE /\ sad_evaluations_sequence' = got.val[1] * 2
                /\ pc' = "l65"
                /\ UNCHANGED raised
  /\ UNCHANGED << arg, invalid_res, valid_res, failed_asserts, has_error,
                  new_res, chainVars, printed, personVars, combineVars >>

\* lines 65-69
L65 ==
  /\ pc = "l65"
  /\ IF has_error
       THEN printed' = Printf(66, "value", Some(Num(sad_evaluations_sequence)))
       ELSE printed' = Printf(68, "invalid", None)
  /\ pc' = "l70"
  /\ UNCHANGED << arg, invalid_res, valid_res, failed_asserts, sadVars,
                  chainVars, raised, personVars, combineVars >>

\* line 70: the block's locals go out of scope
L70 ==
  /\ pc = "l70"
  /\ has_error' = FALSE
  /\ sad_evaluations_sequence' = 0
  /\ new_res' = None
  /\ pc' = "l74"
  /\ UNCHANGED << arg, invalid_res, valid_res, failed_asserts, chainVars,
                  printed, raised, personVars, combineVars >>

\* the receiver of the next stage of the chain at lines 74-83: valid_res, then
\* the temporary the stage before returned
Receiver == IF stages = << >> THEN valid_res ELSE tmp

Stage(op, f, r) ==
  /\ pc = "l74"
  /\ Len(stages) < MaxChain
  /\ stages' = Append(stages, [op |-> op, f |-> f])
  /\ prev' = Receiver
  /\ tmp' = r.res
  /\ calls' = calls \o r.called
  /\ UNCHANGED << pc, arg, invalid_res, failed_asserts, sadVars,
                  evaluations_sequence, result_or, result_eval, gen_calls,
                  printed, raised, personVars, combineVars >>

MapStageConsuming ==
  /\ \E f \in MapFns : Stage("map", f, Map(Receiver, f))
  /\ valid_res' = None

\* a .map(f) stage: lines 78, 79, 83
MapStage ==
  /\ \E f \in MapFns : Stage("map", f, Map(Receiver, f))
  /\ UNCHANGED valid_res

\* a .flat_map(f) stage: line 82
FlatMapStage ==
  /\ \E f \in FlatMapFns : Stage("flat_map", f, FlatMap(Receiver, f))
  /\ UNCHANGED valid_res

\* the chain main() writes at lines 75-83
MainChain ==
  << [op |-> "map", f |-> [fn |-> "plus3"]],
     [op |-> "map", f |-> [fn |-> "negate"]],
     [op |-> "flat_map", f |-> [fn |-> "safe_square_root"]],
     [op |-> "map", f |-> [fn |-> "times2"]] >>

\* line 74: evaluations_sequence is initialised with the chain's result
L74 ==
  /\ pc = "l74"
  /\ evaluations_sequence' = Receiver
  /\ pc' = "l89"
  /\ UNCHANGED << arg, invalid_res, valid_res, failed_asserts, sadVars,
                  stages, tmp, prev, calls, result_or, result_eval, gen_calls,
                  printed, raised, personVars, combineVars >>

L89Unchecked ==
  /\ pc = "l89"
  /\ pc' = "l90"
  /\ UNCHANGED << arg, invalid_res, valid_res, failed_asserts, sadVars,
                  chainVars, printed, raised, personVars, combineVars >>

\* lines 89, 91-93
L89 ==
  /\ pc = "l89"
  /\ IF evaluations_sequence # None
       THEN pc' = "l90" /\ UNCHANGED printed
       ELSE pc' = "l98" /\ printed' = Printf(92, "invalid", None)
  /\ UNCHANGED << arg, invalid_res, valid_res, failed_asserts, sadVars,
                  chainVars, raised, personVars, combineVars >>

\* line 90
L90 ==
  /\ pc = "l90"
  /\ LET got == Get(evaluations_sequence)
     IN  IF got.raised
           THEN Abort /\ UNCHANGED printed
           ELSE /\ printed' = Printf(90, "value", Some(Num(got.val[1])))
                /\ pc' = "l98"
                /\ UNCHANGED raised
  /\ UNCHANGED << arg, invalid_res, valid_res, failed_asserts, sadVars,
                  chainVars, personVars, combineVars >>

\* lines 98-99
L98 ==
  /\ pc = "l98"
  /\ result_or' = ValueOr(evaluations_sequence, NAN)
  /\ printed' = Printf(99, "got value", Some(result_or'))
  /\ pc' = "l104"
  /\ UNCHANGED << arg, invalid_res, valid_res, failed_asserts, sadVars,
                  stages, tmp, prev, calls, evaluations_sequence, result_eval,
                  gen_calls, raised, personVars, combineVars >>

\* lines 104-105
L104 ==
  /\ pc = "l104"
  /\ LET r == ValueOrEval(evaluations_sequence, "get_default")
     IN  /\ result_eval' = r.res
         /\ gen_calls' = gen_calls \o r.called
  /\ printed' = Printf(105, "got value", Some(Num(result_eval')))
  /\ pc' = "l107"
  /\ UNCHANGED << arg, invalid_res, valid_res, failed_asserts, sadVars,
                  stages, tmp, prev, calls, evaluations_sequence, result_or,
                  raised, personVars, combineVars >>

\* line 107: the block's locals go out of scope
L107 ==
  /\ pc = "l107"
  /\ stages' = << >>
  /\ tmp' = None
  /\ prev' = None
  /\ calls' = << >>
  /\ evaluations_sequence' = None
  /\ result_or' = Num(0)
  /\ result_eval' = 0
  /\ gen_calls' = << >>
  /\ pc' = "l113"
  /\ UNCHANGED << arg, invalid_res, valid_res, failed_asserts, sadVars,
                  printed, raised, personVars, combineVars >>

\* an uncaught bad_optional_access: std::terminate
Terminate == pc' = "terminated"

\* the loop at lines 121-123
RECURSIVE PushBackUpper(_, _)
PushBackUpper(temp, rest) ==
  IF rest = << >>
    THEN temp
    ELSE PushBackUpper(Append(temp, ToUpper(Head(rest))), Tail(rest))

\* lines 113-126: temp is local to the block and nothing reads it
L113 ==
  /\ pc = "l113"
  /\ \E loaded \in maybe_load_from_file :
       IF loaded # None
         THEN LET middle_name == loaded[1].middle_name
              IN  IF middle_name # None
                    THEN LET v == Value(middle_name)
                         IN  IF v.thrown
                               THEN Terminate
                               ELSE /\ PushBackUpper(<< >>, v.val[1]) \in Seq(Int)
                                    /\ pc' = "l130"
                    ELSE pc' = "l130"
         ELSE pc' = "l130"
  /\ UNCHANGED << arg, invalid_res, valid_res, failed_asserts, sadVars,
                  chainVars, printed, raised, personVars, combineVars >>

\* line 130
L130 ==
  /\ pc = "l130"
  /\ person' \in maybe_load_from_file
  /\ pc' = "l131"
  /\ UNCHANGED << arg, invalid_res, valid_res, failed_asserts, sadVars,
                  chainVars, printed, raised, capitalized_middle_name,
                  person_calls, combineVars >>

\* lines 131-140
L131 ==
  /\ pc = "l131"
  /\ LET r1 == FlatMap(person, [fn |-> "GetMiddleName"])
         r2 == Map(r1.res, [fn |-> "capitalize"])
     IN  /\ capitalized_middle_name' = r2.res
         /\ person_calls' = r1.called \o r2.called
  /\ failed_asserts' = Check(140, capitalized_middle_name' = None)
  /\ pc' = "l141"
  /\ UNCHANGED << arg, invalid_res, valid_res, sadVars, chainVars, printed,
                  raised, person, combineVars >>

\* line 141: the block's locals go out of scope
L141 ==
  /\ pc = "l141"
  /\ person' = None
  /\ capitalized_middle_name' = None
  /\ person_calls' = << >>
  /\ pc' = "l146"
  /\ UNCHANGED << arg, invalid_res, valid_res, failed_asserts, sadVars,
                  chainVars, printed, raised, combineVars >>

\* lines 146-147; main()'s are 5 and boost::none
L146 ==
  /\ pc = "l146"
  /\ a' \in OptInts
  /\ b' \in OptInts
  /\ pc' = "l151"
  /\ UNCHANGED << arg, invalid_res, valid_res, failed_asserts, sadVars,
                  chainVars, printed, raised, personVars, result, result_f,
                  combine_calls >>

\* lines 151-158
L151 ==
  /\ pc = "l151"
  /\ IF a # None /\ b # None
       THEN LET va == Value(a)
                vb == Value(b)
            IN  IF va.thrown \/ vb.thrown
                  THEN Terminate /\ UNCHANGED << result, failed_asserts >>
                  ELSE /\ result' = Some(va.val[1] + vb.val[1])
                       /\ failed_asserts' = Check(158, result' = None)
                       /\ pc' = "l159"
       ELSE /\ result' = None
            /\ failed_asserts' = Check(158, result' = None)
            /\ pc' = "l159"
  /\ UNCHANGED << arg, invalid_res, valid_res, sadVars, chainVars, printed,
                  raised, personVars, a, b, result_f, combine_calls >>

\* line 159: the block's local goes out of scope
L159 ==
  /\ pc = "l159"
  /\ result' = None
  /\ pc' = "l163"
  /\ UNCHANGED << arg, invalid_res, valid_res, failed_asserts, sadVars,
                  chainVars, printed, raised, personVars, a, b, result_f,
                  combine_calls >>

\* lines 163-169
L163 ==
  /\ pc = "l163"
  /\ LET r == FlatMap(a, [fn |-> "combine", b |-> b])
     IN  /\ result_f' = r.res
         /\ combine_calls' = r.called
  /\ failed_asserts' = Check(169, result_f' = None)
  /\ pc' = "l170"
  /\ UNCHANGED << arg, invalid_res, valid_res, sadVars, chainVars, printed,
                  raised, personVars, a, b, result >>

\* lines 170-171: the block's local goes out of scope and main() returns 0
L170 ==
  /\ pc = "l170"
  /\ result_f' = None
  /\ combine_calls' = << >>
  /\ pc' = "done"
  /\ UNCHANGED << arg, invalid_res, valid_res, failed_asserts, sadVars,
                  chainVars, printed, raised, personVars, a, b, result >>

Next ==
  \/ L41 \/ L43
  \/ L51 \/ L52 \/ L56 \/ L57 \/ L65 \/ L70
  \/ MapStage \/ FlatMapStage \/ L74
  \/ L89 \/ L90 \/ L98 \/ L104 \/ L107
  \/ L113 \/ L130 \/ L131 \/ L141
  \/ L146 \/ L151 \/ L159 \/ L163 \/ L170

Spec == Init /\ [][Next]_vars

----------------------------------------------------------------------------
(* Properties *)

Last(q) == q[Len(q)]

\* the callables of the chain that were invoked, as a set
Invoked(q) == { q[i] : i \in 1 .. Len(q) }

\* C1 (short-circuit law): a map or flat_map stage whose receiver is absent
\* returns absent and invokes nothing, so the chain stays absent and its log of
\* invocations stops growing; in the Person chain an absent person or an absent
\* middle name gives an absent capitalized_middle_name and the upper-casing
\* functor is never invoked; at lines 163-168 an absent a invokes nothing and
\* an absent b leaves the inner functor uninvoked.
C1_ShortCircuit ==
  /\ [][ (Len(stages') = Len(stages) + 1 /\ Receiver = None)
           => (tmp' = None /\ calls' = calls) ]_vars
  /\ [](pc = "l141" /\ (person = None \/ person[1].middle_name = None)
           => /\ capitalized_middle_name = None
              /\ "capitalize" \notin Invoked(person_calls))
  /\ [](pc = "l170" /\ a = None => result_f = None /\ combine_calls = << >>)
  /\ [](pc = "l170" /\ a # None /\ b = None
           => result_f = None /\ combine_calls = << "combine" >>)

\* a chain of at least three stages whose last two had an absent receiver
C1_Witness ==
  /\ pc = "l74"
  /\ Len(stages) >= 3
  /\ valid_res # None
  /\ prev = None
  /\ tmp = None
  /\ Len(calls) = Len(stages) - 2

\* C2 (left identity): a flat_map stage on a present receiver holding x returns
\* exactly f(x): absent when f(x) is absent, and the payload of f(x), not an
\* optional of an optional, when it is present.  At line 132, with a person
\* loaded, what is capitalized is that person's middle name; at lines 163-168,
\* with a present, the result is what the functor returns for a's payload.
C2_FlatMapLeftIdentity ==
  /\ (pc = "l74" /\ stages # << >> /\ Last(stages).op = "flat_map" /\ prev # None)
       => /\ tmp = safe_square_root(ToInt32(prev[1]))
          /\ tmp # None => (Len(tmp) = 1 /\ tmp[1] \in Int)
  /\ (pc = "l141" /\ person # None)
       => capitalized_middle_name =
            (IF person[1].middle_name = None
               THEN None
               ELSE Some(PushBackUpper(<< >>, person[1].middle_name[1])))
  /\ (pc = "l170" /\ a # None)
       => result_f = (IF b = None THEN None ELSE Some(a[1] + b[1]))

\* flat_map(safe_square_root) applied to a present optional gave a present one
C2_Witness ==
  /\ pc = "l74"
  /\ stages # << >>
  /\ Last(stages).op = "flat_map"
  /\ prev # None
  /\ tmp # None
  /\ tmp[1] > 0

\* C3 (map composition): of(x).map(f).map(g) is of(g(f(x))): present, with f
\* and then g applied once each.
C3_MapComposition ==
  (pc = "l74" /\ Len(stages) = 2 /\ valid_res # None
     /\ stages[1].op = "map" /\ stages[2].op = "map")
    => /\ tmp = Some(Apply(stages[2].f, Apply(stages[1].f, valid_res[1])))
       /\ calls = << stages[1].f.fn, stages[2].f.fn >>

\* main()'s own two stages on main()'s own input: 1 + 3 = 4, negated
C3_Witness ==
  /\ pc = "l74"
  /\ arg = 1
  /\ stages = SubSeq(MainChain, 1, 2)
  /\ tmp = Some(0 - 4 * Scale)
  /\ calls = << "plus3", "negate" >>

\* C4 (lazy default): value_or_eval(get_default) returns the payload and does
\* not invoke the generator when the optional is present; it invokes the
\* generator once and returns its result when the optional is absent.
C4_LazyDefault ==
  pc = "l107"
    => IF evaluations_sequence # None
         THEN result_eval = evaluations_sequence[1] /\ gen_calls = << >>
         ELSE result_eval = get_default /\ gen_calls = << "get_default" >>

\* value_or_eval on a present optional whose payload differs from the default
C4_Witness ==
  /\ pc = "l107"
  /\ evaluations_sequence # None
  /\ result_eval # get_default
  /\ result_eval = evaluations_sequence[1]

\* C5 (empty access): get() on an absent optional raises and yields nothing,
\* get() on a present one yields the payload and does not raise; main() is at a
\* get() call (lines 52, 57, 90) only with the optional present, uses the
\* payload it held, and never raises.
C5_EmptyAccess ==
  /\ Get(None).raised /\ Get(None).val = None
  /\ \A o \in { valid_res, new_res, evaluations_sequence } :
       o # None => Get(o) = [raised |-> FALSE, val |-> o]
  /\ pc = "l52" => valid_res # None
  /\ pc = "l57" => new_res # None
  /\ pc = "l90" => evaluations_sequence # None
  /\ (pc = "l65" /\ new_res # None) => sad_evaluations_sequence = new_res[1] * 2
  /\ (pc = "l98" /\ evaluations_sequence # None)
       => Last(printed) = [line |-> 90, text |-> "value",
                           v |-> Some(Num(evaluations_sequence[1]))]
  /\ ~raised
  /\ pc # "aborted"

\* line 90 has printed the payload get() returned
C5_Witness ==
  /\ pc = "l98"
  /\ evaluations_sequence # None
  /\ Last(printed).line = 90
  /\ Last(printed).v = Some(Num(evaluations_sequence[1]))
  /\ ~raised

\* the result of "if a and b are both present then a.value() + b.value() else none"
Explicit(x, y) == IF x # None /\ y # None THEN Some(x[1] + y[1]) ELSE None

\* C6 (combining two optionals): a.flat_map(av => b.map(bv => av + bv)) is
\* present(av + bv) when both are present and absent otherwise, which is the
\* result of the block with ifs: 5 with none gives none, 5 with 7 gives 12.
C6_Combine ==
  /\ pc = "l159" => result = Explicit(a, b)
  /\ pc = "l170" => result_f = Explicit(a, b)
  /\ (pc = "l170" /\ a = Some(5) /\ b = None) => result_f = None
  /\ (pc = "l170" /\ a = Some(5) /\ b = Some(7)) => result_f = Some(12)

\* 5 and 7 combined
C6_Witness ==
  /\ pc = "l170"
  /\ a = Some(5)
  /\ b = Some(7)
  /\ result_f = Some(12)
  /\ combine_calls = << "combine", "add" >>

\* C7 (the chain of lines 75-83 ends absent): for every argument of the
\* producer the chain map(+3).map(negate).flat_map(safe_square_root).map(*2) is
\* absent and the last functor is not invoked; with the argument 1 the value
\* handed to safe_square_root is -4.
C7_ChainEndsAbsent ==
  /\ stages = MainChain
       => /\ tmp = None
          /\ "times2" \notin Invoked(calls)
          /\ pc # "l74" => evaluations_sequence = None
          /\ pc = "l98" => Last(printed).text = "invalid"
  /\ (stages = MainChain /\ valid_res # None)
       => calls = << "plus3", "negate", "safe_square_root" >>
  /\ (stages = SubSeq(MainChain, 1, 2) /\ arg = 1) => tmp = Some(0 - 4 * Scale)

\* main()'s chain on main()'s input, at the inspection of line 89
C7_Witness ==
  /\ pc = "l89"
  /\ arg = 1
  /\ stages = MainChain
  /\ evaluations_sequence = None
  /\ calls = << "plus3", "negate", "safe_square_root" >>

\* C8 (safe_square_root): the result is absent exactly when the argument is
\* negative, and otherwise holds the square root (to the resolution of the
\* model), 0 included; the asserts of lines 42 and 44 hold for -1 and 1.
C8_SafeSquareRoot ==
  /\ pc \notin { "l41", "l43" }
       => /\ valid_res = None <=> arg < 0
          /\ arg >= 0
               => /\ valid_res[1] * valid_res[1] <= arg * Scale * Scale
                  /\ (valid_res[1] + 1) * (valid_res[1] + 1) > arg * Scale * Scale
          /\ arg = 1 => (valid_res = Some(Scale) /\ 44 \notin failed_asserts)
  /\ pc # "l41" => (invalid_res = None /\ 42 \notin failed_asserts)
  /\ (pc = "l56" /\ valid_res # None)
       => (new_res = None <=> ToInt32(0 - valid_res[1]) < 0)

\* the argument 0 gives a present optional holding 0
C8_Witness ==
  /\ pc = "l51"
  /\ arg = 0
  /\ valid_res = Some(0)

\* C9 (receivers are not mutated): valid_res is the same optional from line 43
\* on, whatever is applied to it and to the results made from it; so are
\* evaluations_sequence from line 74 to the end of its block, person from line
\* 130 to the end of its block, and a and b from line 147 on.
C9_ReceiversUnchanged ==
  [][ /\ pc \notin { "l41", "l43" } => valid_res' = valid_res
      /\ pc \in { "l89", "l90", "l98", "l104" }
           => evaluations_sequence' = evaluations_sequence
      /\ pc = "l131" => person' = person
      /\ pc \in { "l151", "l159", "l163", "l170" } => (a' = a /\ b' = b) ]_vars

\* main() has returned with valid_res, a and b as they were made
C9_Witness ==
  /\ pc = "done"
  /\ arg = 1
  /\ valid_res = Some(Scale)
  /\ a = Some(5)
  /\ b = None

\* C10 (the two blocks report alike): with the chain of lines 75-83, the block
\* of lines 47-70 and the block of lines 73-93 print the same kind of line, the
\* value when the computation succeeded and "invalid" when a step was absent
\* (stated for the runs in which no assert has failed, as in main()'s own).
C10_SameReport ==
  (pc = "l98" /\ stages = MainChain /\ failed_asserts = { })
    => /\ printed[1].text = printed[2].text
       /\ printed[1].v = printed[2].v
       /\ printed[2].text = "invalid" <=> evaluations_sequence = None

====
